---- MODULE Spec2Model ----
(***************************************************************************)
(* Model of the subprocess-orchestration core of the graphviz package:     *)
(* the capability sets and command() builder, the render/pipe facade and   *)
(* version() of graphviz/backend/__init__.py, and the process-wide         *)
(* defaults of graphviz/__init__.py.                                       *)
(*                                                                         *)
(* Python str values are sequences of one-character strings, so that       *)
(* str.lower(), ':'.join(), os.path.split() and the version regular        *)
(* expression are computed character by character.  Python's None is the   *)
(* value None below, which no str equals.                                  *)
(***************************************************************************)
EXTENDS Integers, Sequences, FiniteSets, TLC

None == <<"None">>

\* pathlib.Path('dot')
DOT_BINARY == <<"d", "o", "t">>

ENGINES ==
    { <<"d", "o", "t">>,
      <<"n", "e", "a", "t", "o">>,
      <<"t", "w", "o", "p", "i">>,
      <<"c", "i", "r", "c", "o">>,
      <<"f", "d", "p">>,
      <<"s", "f", "d", "p">>,
      <<"p", "a", "t", "c", "h", "w", "o", "r", "k">>,
      <<"o", "s", "a", "g", "e">> }

FORMATS ==
    { <<"b", "m", "p">>,
      <<"c", "a", "n", "o", "n">>,
      <<"d", "o", "t">>,
      <<"g", "v">>,
      <<"x", "d", "o", "t">>,
      <<"x", "d", "o", "t", "1", ".", "2">>,
      <<"x", "d", "o", "t", "1", ".", "4">>,
      <<"c", "g", "i", "m", "a", "g", "e">>,
      <<"c", "m", "a", "p">>,
      <<"e", "p", "s">>,
      <<"e", "x", "r">>,
      <<"f", "i", "g">>,
      <<"g", "d">>,
      <<"g", "d", "2">>,
      <<"g", "i", "f">>,
      <<"g", "t", "k">>,
      <<"i", "c", "o">>,
      <<"i", "m", "a", "p">>,
      <<"c", "m", "a", "p", "x">>,
      <<"i", "m", "a", "p", "_", "n", "p">>,
      <<"c", "m", "a", "p", "x", "_", "n", "p">>,
      <<"i", "s", "m", "a", "p">>,
      <<"j", "p", "2">>,
      <<"j", "p", "g">>,
      <<"j", "p", "e", "g">>,
      <<"j", "p", "e">>,
      <<"j", "s", "o", "n">>,
      <<"j", "s", "o", "n", "0">>,
      <<"d", "o", "t", "_", "j", "s", "o", "n">>,
      <<"x", "d", "o", "t", "_", "j", "s", "o", "n">>,
      <<"p", "c", "t">>,
      <<"p", "i", "c", "t">>,
      <<"p", "d", "f">>,
      <<"p", "i", "c">>,
      <<"p", "l", "a", "i", "n">>,
      <<"p", "l", "a", "i", "n", "-", "e", "x", "t">>,
      <<"p", "n", "g">>,
      <<"p", "o", "v">>,
      <<"p", "s">>,
      <<"p", "s", "2">>,
      <<"p", "s", "d">>,
      <<"s", "g", "i">>,
      <<"s", "v", "g">>,
      <<"s", "v", "g", "z">>,
      <<"t", "g", "a">>,
      <<"t", "i", "f">>,
      <<"t", "i", "f", "f">>,
      <<"t", "k">>,
      <<"v", "m", "l">>,
      <<"v", "m", "l", "z">>,
      <<"v", "r", "m", "l">>,
      <<"w", "b", "m", "p">>,
      <<"w", "e", "b", "p">>,
      <<"x", "l", "i", "b">>,
      <<"x", "1", "1">> }

RENDERERS ==
    { <<"c", "a", "i", "r", "o">>,
      <<"d", "o", "t">>,
      <<"f", "i", "g">>,
      <<"g", "d">>,
      <<"g", "d", "i", "p", "l", "u", "s">>,
      <<"m", "a", "p">>,
      <<"p", "i", "c">>,
      <<"p", "o", "v">>,
      <<"p", "s">>,
      <<"s", "v", "g">>,
      <<"t", "k">>,
      <<"v", "m", "l">>,
      <<"v", "r", "m", "l">>,
      <<"x", "d", "o", "t">> }

FORMATTERS ==
    { <<"c", "a", "i", "r", "o">>,
      <<"c", "o", "r", "e">>,
      <<"g", "d">>,
      <<"g", "d", "i", "p", "l", "u", "s">>,
      <<"g", "d", "w", "b", "m", "p">>,
      <<"x", "l", "i", "b">> }


(***************************************************************************)
(* str helpers                                                             *)
(***************************************************************************)
UpperCase ==
    <<"A", "B", "C", "D", "E", "F", "G", "H", "I", "J", "K", "L", "M",
      "N", "O", "P", "Q", "R", "S", "T", "U", "V", "W", "X", "Y", "Z">>

LowerCase ==
    <<"a", "b", "c", "d", "e", "f", "g", "h", "i", "j", "k", "l", "m",
      "n", "o", "p", "q", "r", "s", "t", "u", "v", "w", "x", "y", "z">>

LowerChar(c) ==
    IF \E i \in 1..26 : UpperCase[i] = c
    THEN LowerCase[CHOOSE i \in 1..26 : UpperCase[i] = c]
    ELSE c

\* str.lower()
Lower(s) == [i \in 1..Len(s) |-> LowerChar(s[i])]

\* [f for f in parts if f is not None]
RECURSIVE NotNone(_)
NotNone(parts) ==
    IF parts = <<>> THEN <<>>
    ELSE IF Head(parts) = None THEN NotNone(Tail(parts))
    ELSE <<Head(parts)>> \o NotNone(Tail(parts))

\* sep.join(parts)
RECURSIVE Join(_, _)
Join(sep, parts) ==
    IF parts = <<>> THEN <<>>
    ELSE IF Len(parts) = 1 THEN Head(parts)
    ELSE Head(parts) \o sep \o Join(sep, Tail(parts))

(***************************************************************************)
(* Outcome of a call: a returned value, or a raised exception with the     *)
(* literal text of its message and the value the message embeds.           *)
(***************************************************************************)
Return(v) == [kind |-> "ok", value |-> v, text |-> "", embeds |-> None]

Raise(exc, msg, v) == [kind |-> exc, value |-> None, text |-> msg, embeds |-> v]

(***************************************************************************)
(* Variants of command() with a plausible slip, used to test that the      *)
(* properties below depend on the code.                                    *)
(***************************************************************************)
\* validates the capability sets before the formatter-without-renderer rule
command_sets_first(engine, format_, renderer, formatter) ==
    IF engine \notin ENGINES
    THEN Raise("ValueError", "unknown engine: ", engine)
    ELSE IF format_ \notin FORMATS
    THEN Raise("ValueError", "unknown format: ", format_)
    ELSE IF renderer # None /\ renderer \notin RENDERERS
    THEN Raise("ValueError", "unknown renderer: ", renderer)
    ELSE IF formatter # None /\ formatter \notin FORMATTERS
    THEN Raise("ValueError", "unknown formatter: ", formatter)
    ELSE IF formatter # None /\ renderer = None
    THEN Raise("RequiredArgumentError", "formatter given without renderer", None)
    ELSE Return(<<DOT_BINARY,
                  <<"-", "K">> \o engine,
                  <<"-", "T">> \o Join(<<":">>, NotNone(<<format_, renderer, formatter>>))>>)

\* joins the output format in the order of render()'s file suffix
command_suffix_order(engine, format_, renderer, formatter) ==
    IF formatter # None /\ renderer = None
    THEN Raise("RequiredArgumentError", "formatter given without renderer", None)
    ELSE IF engine \notin ENGINES
    THEN Raise("ValueError", "unknown engine: ", engine)
    ELSE IF format_ \notin FORMATS
    THEN Raise("ValueError", "unknown format: ", format_)
    ELSE IF renderer # None /\ renderer \notin RENDERERS
    THEN Raise("ValueError", "unknown renderer: ", renderer)
    ELSE IF formatter # None /\ formatter \notin FORMATTERS
    THEN Raise("ValueError", "unknown formatter: ", formatter)
    ELSE Return(<<DOT_BINARY,
                  <<"-", "K">> \o engine,
                  <<"-", "T">> \o Join(<<":">>, NotNone(<<formatter, renderer, format_>>))>>)

\* leaves the formatter unvalidated
command_formatter_unchecked(engine, format_, renderer, formatter) ==
    IF formatter # None /\ renderer = None
    THEN Raise("RequiredArgumentError", "formatter given without renderer", None)
    ELSE IF engine \notin ENGINES
    THEN Raise("ValueError", "unknown engine: ", engine)
    ELSE IF format_ \notin FORMATS
    THEN Raise("ValueError", "unknown format: ", format_)
    ELSE IF renderer # None /\ renderer \notin RENDERERS
    THEN Raise("ValueError", "unknown renderer: ", renderer)
    ELSE Return(<<DOT_BINARY,
                  <<"-", "K">> \o engine,
                  <<"-", "T">> \o Join(<<":">>, NotNone(<<format_, renderer, formatter>>))>>)

\* lacks the formatter-without-renderer rule
command_rule_dropped(engine, format_, renderer, formatter) ==
    IF engine \notin ENGINES
    THEN Raise("ValueError", "unknown engine: ", engine)
    ELSE IF format_ \notin FORMATS
    THEN Raise("ValueError", "unknown format: ", format_)
    ELSE IF renderer # None /\ renderer \notin RENDERERS
    THEN Raise("ValueError", "unknown renderer: ", renderer)
    ELSE IF formatter # None /\ formatter \notin FORMATTERS
    THEN Raise("ValueError", "unknown formatter: ", formatter)
    ELSE Return(<<DOT_BINARY,
                  <<"-", "K">> \o engine,
                  <<"-", "T">> \o Join(<<":">>, NotNone(<<format_, renderer, formatter>>))>>)

(***************************************************************************)
(* command(engine, format_, *, renderer=None, formatter=None)              *)
(***************************************************************************)
command(engine, format_, renderer, formatter) ==
    IF formatter # None /\ renderer = None
    THEN Raise("RequiredArgumentError", "formatter given without renderer", None)
    ELSE IF engine \notin ENGINES
    THEN Raise("ValueError", "unknown engine: ", engine)
    ELSE IF format_ \notin FORMATS
    THEN Raise("ValueError", "unknown format: ", format_)
    ELSE IF renderer # None /\ renderer \notin RENDERERS
    THEN Raise("ValueError", "unknown renderer: ", renderer)
    ELSE IF formatter # None /\ formatter \notin FORMATTERS
    THEN Raise("ValueError", "unknown formatter: ", formatter)
    ELSE LET output_format == NotNone(<<format_, renderer, formatter>>)
             output_format_flag == Join(<<":">>, output_format)
         IN  Return(<<DOT_BINARY,
                      <<"-", "K">> \o engine,
                      <<"-", "T">> \o output_format_flag>>)

(***************************************************************************)
(* set_default_engine(engine) / set_default_format(format), applied to the *)
(* current class attribute Graphviz._engine / Graphviz._format: the        *)
(* outcome of the call and the class attribute after it.                   *)
(***************************************************************************)
\* returns the value just written instead of the one replaced
set_default_engine_returns_new(engine, cur) ==
    IF engine \notin ENGINES
    THEN [res |-> Raise("ValueError", "unknown engine: ", engine), attr |-> cur]
    ELSE [res |-> Return(engine), attr |-> engine]

set_default_engine(engine, cur) ==
    IF engine \notin ENGINES
    THEN [res |-> Raise("ValueError", "unknown engine: ", engine), attr |-> cur]
    ELSE LET old_default_engine == cur
         IN  [res |-> Return(old_default_engine), attr |-> engine]

set_default_format(format, cur) ==
    IF format \notin FORMATS
    THEN [res |-> Raise("ValueError", "unknown format: ", format), attr |-> cur]
    ELSE LET old_default_format == cur
         IN  [res |-> Return(old_default_format), attr |-> format]

(***************************************************************************)
(* Argument values the calls are tried with: members of the capability     *)
(* sets, re-casings of members, and values outside the sets.               *)
(***************************************************************************)
EngineArgs ==
    { <<"d", "o", "t">>, <<"n", "e", "a", "t", "o">>,
      <<"D", "O", "T">>, <<"N", "e", "a", "t", "o">>,
      <<"b", "o", "g", "u", "s">> }

FormatArgs ==
    { <<"p", "d", "f">>, <<"s", "v", "g">>,
      <<"P", "D", "F">>, <<"S", "v", "g">>,
      <<"d", "o", "c", "x">> }

RendererArgs ==
    { None, <<"c", "a", "i", "r", "o">>, <<"g", "d">>,
      <<"C", "a", "i", "r", "o">>, <<"n", "o", "n", "e">> }

FormatterArgs ==
    { None, <<"c", "o", "r", "e">>, <<"g", "d">>,
      <<"C", "O", "R", "E">>, <<"x">> }

(***************************************************************************)
(* class Graphviz: an instance is its __dict__, where None stands for an   *)
(* absent key; attribute lookup falls back to the class attribute.         *)
(***************************************************************************)
\* the __dict__ of an instance before __init__ has assigned anything
EmptyDict == [_engine |-> None, _format |-> None,
              _renderer |-> None, _formatter |-> None]

\* class attributes Graphviz._renderer and Graphviz._formatter
cls_renderer == None

cls_formatter == None

\* self._engine etc.: the instance attribute, else the class attribute
Lookup(own, cls) == IF own # None THEN own ELSE cls

\* reads the class attribute even when the instance has its own
get_engine_class_only(self, cls_engine) == cls_engine

\* property Graphviz.engine
get_engine(self, cls_engine) == Lookup(self._engine, cls_engine)

\* property Graphviz.format
get_format(self, cls_format) == Lookup(self._format, cls_format)

\* property Graphviz.renderer
get_renderer(self) == Lookup(self._renderer, cls_renderer)

\* property Graphviz.formatter
get_formatter(self) == Lookup(self._formatter, cls_formatter)

\* validates the lowercased value but stores the value as given
set_engine_stores_given(self, engine) ==
    IF Lower(engine) \notin ENGINES
    THEN [res |-> Raise("ValueError", "unknown engine: ", Lower(engine)),
          self |-> self]
    ELSE [res |-> Return(None), self |-> [self EXCEPT !._engine = engine]]

\* @engine.setter: the outcome and the instance __dict__ after it
set_engine(self, engine) ==
    LET e == Lower(engine)
    IN  IF e \notin ENGINES
        THEN [res |-> Raise("ValueError", "unknown engine: ", e), self |-> self]
        ELSE [res |-> Return(None), self |-> [self EXCEPT !._engine = e]]

\* @format.setter
set_format(self, format) ==
    LET f == Lower(format)
    IN  IF f \notin FORMATS
        THEN [res |-> Raise("ValueError", "unknown format: ", f), self |-> self]
        ELSE [res |-> Return(None), self |-> [self EXCEPT !._format = f]]

\* @renderer.setter
set_renderer(self, renderer) ==
    IF renderer = None
    THEN [res |-> Return(None), self |-> [self EXCEPT !._renderer = None]]
    ELSE LET r == Lower(renderer)
         IN  IF r \notin RENDERERS
             THEN [res |-> Raise("ValueError", "unknown renderer: ", r),
                   self |-> self]
             ELSE [res |-> Return(None), self |-> [self EXCEPT !._renderer = r]]

\* @formatter.setter
set_formatter(self, formatter) ==
    IF formatter = None
    THEN [res |-> Return(None), self |-> [self EXCEPT !._formatter = None]]
    ELSE LET f == Lower(formatter)
         IN  IF f \notin FORMATTERS
             THEN [res |-> Raise("ValueError", "unknown formatter: ", f),
                   self |-> self]
             ELSE [res |-> Return(None), self |-> [self EXCEPT !._formatter = f]]

\* Graphviz.__init__(format, engine, renderer=, formatter=): the setters in
\* the order of the code; the first one that raises ends the construction
Graphviz__init__(format, engine, renderer, formatter) ==
    LET s1 == IF format # None THEN set_format(EmptyDict, format)
              ELSE [res |-> Return(None), self |-> EmptyDict]
        s2 == IF engine # None THEN set_engine(s1.self, engine)
              ELSE [res |-> Return(None), self |-> s1.self]
        s3 == set_renderer(s2.self, renderer)
        s4 == set_formatter(s3.self, formatter)
    IN  IF s1.res.kind # "ok" THEN s1
        ELSE IF s2.res.kind # "ok" THEN s2
        ELSE IF s3.res.kind # "ok" THEN s3
        ELSE s4

\* Graphviz._get_backend_kwargs(format=, renderer=, formatter=): each
\* keyword left at None is taken from the instance
get_backend_kwargs(self, format, renderer, formatter, cls_format) ==
    [format |-> IF format = None THEN Lookup(self._format, cls_format)
                ELSE format,
     renderer |-> IF renderer = None THEN Lookup(self._renderer, cls_renderer)
                  ELSE renderer,
     formatter |-> IF formatter = None
                   THEN Lookup(self._formatter, cls_formatter)
                   ELSE formatter]

\* keyword values _get_backend_kwargs is tried with
KwFormatArgs == { None, <<"s", "v", "g">> }

KwRendererArgs == { None, <<"g", "d">> }

KwFormatterArgs == { None, <<"g", "d">> }

\* values the object setters and the constructor are tried with
ObjEngineArgs ==
    { <<"n", "e", "a", "t", "o">>, <<"D", "O", "T">>,
      <<"b", "o", "g", "u", "s">> }

ObjFormatArgs ==
    { <<"S", "V", "G">>, <<"d", "o", "c", "x">> }

ObjRendererArgs ==
    { None, <<"C", "a", "i", "r", "o">>, <<"n", "o", "n", "e">> }

ObjFormatterArgs ==
    { None, <<"C", "O", "R", "E">>, <<"x">> }

\* number of Graphviz instances created
MaxObjs == 1

\* number of returned defaults a caller keeps for a later restore
MaxScopes == 2

(***************************************************************************)
(* The process runner run_check() of graphviz/backend/running.py, which    *)
(* is not part of the sources at hand: modelled from section 4.2 of the    *)
(* specification.  proc is what the environment does with the subprocess:  *)
(* whether the executable is found, its exit status and the text captured  *)
(* from it.                                                                *)
(***************************************************************************)
run_check(cmd, proc) ==
    IF ~proc.found
    THEN Raise("ExecutableNotFound", "failed to execute ", cmd)
    ELSE IF proc.returncode # 0
    THEN Raise("CalledProcessError", "returned non-zero exit status", cmd)
    ELSE Return(proc.stdout)

\* one invocation of run_check, as a mock of it would record it
Invocation(cmd, cwd, input, capture, proc) ==
    [cmd |-> cmd, cwd |-> cwd, input |-> input, capture |-> capture,
     proc |-> proc]

(***************************************************************************)
(* os.path.split() and os.path.join() (posixpath)                          *)
(***************************************************************************)
\* p.rfind('/') + 1
RFindSlash(p) ==
    IF \E i \in 1..Len(p) : p[i] = "/"
    THEN CHOOSE i \in 1..Len(p) :
            p[i] = "/" /\ \A j \in (i + 1)..Len(p) : p[j] # "/"
    ELSE 0

\* head.rstrip('/')
RECURSIVE RStripSlash(_)
RStripSlash(head) ==
    IF head # <<>> /\ head[Len(head)] = "/"
    THEN RStripSlash(SubSeq(head, 1, Len(head) - 1))
    ELSE head

\* os.path.split(p): <<head, tail>>
path_split(p) ==
    LET i == RFindSlash(p)
        head == SubSeq(p, 1, i)
        tail == SubSeq(p, i + 1, Len(p))
    IN  IF head # <<>> /\ \E k \in 1..Len(head) : head[k] # "/"
        THEN <<RStripSlash(head), tail>>
        ELSE <<head, tail>>

\* os.path.join(a, b)
path_join(a, b) ==
    IF b # <<>> /\ b[1] = "/" THEN b
    ELSE IF a = <<>> \/ a[Len(a)] = "/" THEN a \o b
    ELSE a \o <<"/">> \o b

(***************************************************************************)
(* render() and the pipe functions: the outcome of the call and the        *)
(* run_check invocations it made.                                          *)
(***************************************************************************)
\* calls run_check a second time when the first call fails
render_retry(engine, format, filepath, renderer, formatter, proc) ==
    LET dirname == path_split(filepath)[1]
        filename == path_split(filepath)[2]
        c == command(engine, format, renderer, formatter)
        cmd == c.value \o <<<<"-", "O">>, filename>>
        suffix == Join(<<".">>, NotNone(<<formatter, renderer, format>>))
        rendered == filename \o <<".">> \o suffix
        cwd == IF dirname # <<>> THEN dirname ELSE None
        inv == Invocation(cmd, cwd, None, "capture_output", proc)
        r == run_check(cmd, proc)
    IN  IF c.kind # "ok" THEN [res |-> c, runs |-> <<>>]
        ELSE IF r.kind # "ok" THEN [res |-> r, runs |-> <<inv, inv>>]
        ELSE [res |-> IF dirname # <<>>
                      THEN Return(path_join(dirname, rendered))
                      ELSE Return(rendered),
              runs |-> <<inv>>]

\* builds the file suffix in the order of the -T flag
render_flag_order(engine, format, filepath, renderer, formatter, proc) ==
    LET dirname == path_split(filepath)[1]
        filename == path_split(filepath)[2]
        c == command(engine, format, renderer, formatter)
        cmd == c.value \o <<<<"-", "O">>, filename>>
        suffix == Join(<<".">>, NotNone(<<format, renderer, formatter>>))
        rendered == filename \o <<".">> \o suffix
        cwd == IF dirname # <<>> THEN dirname ELSE None
        r == run_check(cmd, proc)
    IN  IF c.kind # "ok" THEN [res |-> c, runs |-> <<>>]
        ELSE [res |-> IF r.kind # "ok" THEN r
                      ELSE IF dirname # <<>>
                      THEN Return(path_join(dirname, rendered))
                      ELSE Return(rendered),
              runs |-> <<Invocation(cmd, cwd, None, "capture_output", proc)>>]

render(engine, format, filepath, renderer, formatter, proc) ==
    LET dirname == path_split(filepath)[1]
        filename == path_split(filepath)[2]
        c == command(engine, format, renderer, formatter)
        cmd == c.value \o <<<<"-", "O">>, filename>>
        suffix == Join(<<".">>, NotNone(<<formatter, renderer, format>>))
        rendered == filename \o <<".">> \o suffix
        cwd == IF dirname # <<>> THEN dirname ELSE None
        r == run_check(cmd, proc)
    IN  IF c.kind # "ok" THEN [res |-> c, runs |-> <<>>]
        ELSE [res |-> IF r.kind # "ok" THEN r
                      ELSE IF dirname # <<>>
                      THEN Return(path_join(dirname, rendered))
                      ELSE Return(rendered),
              runs |-> <<Invocation(cmd, cwd, None, "capture_output", proc)>>]

\* pipe(), pipe_string(), pipe_lines() and pipe_lines_string() differ in
\* the keyword the input is handed to run_check with; all return proc.stdout
pipe_any(engine, format, input, renderer, formatter, proc) ==
    LET c == command(engine, format, renderer, formatter)
        r == run_check(c.value, proc)
    IN  IF c.kind # "ok" THEN [res |-> c, runs |-> <<>>]
        ELSE [res |-> r,
              runs |-> <<Invocation(c.value, None, input, "capture_output", proc)>>]

pipe(engine, format, data, renderer, formatter, proc) ==
    pipe_any(engine, format, data, renderer, formatter, proc)

pipe_string(engine, format, input_string, renderer, formatter, proc) ==
    pipe_any(engine, format, input_string, renderer, formatter, proc)

pipe_lines(engine, format, input_lines, renderer, formatter, proc) ==
    pipe_any(engine, format, input_lines, renderer, formatter, proc)

pipe_lines_string(engine, format, input_lines, renderer, formatter, proc) ==
    pipe_any(engine, format, input_lines, renderer, formatter, proc)

(***************************************************************************)
(* version(): re.search() of the banner pattern                            *)
(*   graphviz version (\d+)\.(\d+)(?:\.(\d+)(?:~dev\.\d{8}\.\d{4}|\.(\d+))?)? *)
(* followed by a space, with the regular expression engine's order of      *)
(* trial: leftmost start, longest digit run first, an optional part        *)
(* present before absent, the first alternative before the second.         *)
(***************************************************************************)
Digits == {"0", "1", "2", "3", "4", "5", "6", "7", "8", "9"}

\* the value of one decimal digit
DigitValue(c) ==
    CASE c = "0" -> 0 [] c = "1" -> 1 [] c = "2" -> 2 [] c = "3" -> 3
      [] c = "4" -> 4 [] c = "5" -> 5 [] c = "6" -> 6 [] c = "7" -> 7
      [] c = "8" -> 8 [] c = "9" -> 9

\* int(d) of a string of decimal digits
RECURSIVE ToInt(_)
ToInt(d) ==
    IF d = <<>> THEN 0
    ELSE 10 * ToInt(SubSeq(d, 1, Len(d) - 1)) + DigitValue(d[Len(d)])

\* the number of consecutive digits of s from position p on
RECURSIVE DigitRun(_, _)
DigitRun(s, p) ==
    IF p \in 1..Len(s) /\ s[p] \in Digits THEN 1 + DigitRun(s, p + 1) ELSE 0

CharAt(s, p, c) == p \in 1..Len(s) /\ s[p] = c

HasAt(s, p, lit) ==
    /\ p >= 1
    /\ p + Len(lit) - 1 <= Len(s)
    /\ SubSeq(s, p, p + Len(lit) - 1) = lit

Longest(ns) == CHOOSE n \in ns : \A m \in ns : m <= n

VersionLiteral == <<"g", "r", "a", "p", "h", "v", "i", "z", " ", "v", "e", "r", "s", "i", "o", "n", " ">>

DevMarker == <<"~", "d", "e", "v", ".">>

\* '~dev\.\d{8}\.\d{4}' at r, then the closing space
DevAt(s, r) ==
    /\ HasAt(s, r, DevMarker)
    /\ \A k \in 0..7 : r + 5 + k <= Len(s) /\ s[r + 5 + k] \in Digits
    /\ CharAt(s, r + 13, ".")
    /\ \A k \in 0..3 : r + 14 + k <= Len(s) /\ s[r + 14 + k] \in Digits
    /\ CharAt(s, r + 18, " ")

\* without the development-build alternative
re_inner_no_dev(s, r) ==
    LET n4s == {n \in 1..DigitRun(s, r + 1) :
                    CharAt(s, r, ".") /\ CharAt(s, r + 1 + n, " ")}
    IN  IF n4s # {}
        THEN [ok |-> TRUE, g4 |-> SubSeq(s, r + 1, r + Longest(n4s))]
        ELSE IF CharAt(s, r, " ") THEN [ok |-> TRUE, g4 |-> None]
        ELSE [ok |-> FALSE, g4 |-> None]

\* '(?:~dev\.\d{8}\.\d{4}|\.(\d+))? ' at r
re_inner(s, r) ==
    LET n4s == {n \in 1..DigitRun(s, r + 1) :
                    CharAt(s, r, ".") /\ CharAt(s, r + 1 + n, " ")}
    IN  IF DevAt(s, r) THEN [ok |-> TRUE, g4 |-> None]
        ELSE IF n4s # {}
        THEN [ok |-> TRUE, g4 |-> SubSeq(s, r + 1, r + Longest(n4s))]
        ELSE IF CharAt(s, r, " ") THEN [ok |-> TRUE, g4 |-> None]
        ELSE [ok |-> FALSE, g4 |-> None]

\* '(?:\.(\d+)(?:...)?)? ' at q
re_outer(s, q) ==
    LET n3s == {n \in 1..DigitRun(s, q + 1) :
                    CharAt(s, q, ".") /\ re_inner(s, q + 1 + n).ok}
    IN  IF n3s # {}
        THEN [ok |-> TRUE,
              g3 |-> SubSeq(s, q + 1, q + Longest(n3s)),
              g4 |-> re_inner(s, q + 1 + Longest(n3s)).g4]
        ELSE IF CharAt(s, q, " ") THEN [ok |-> TRUE, g3 |-> None, g4 |-> None]
        ELSE [ok |-> FALSE, g3 |-> None, g4 |-> None]

\* '(\d+)\.(\d+)...' at p: the groups() of the match, or ok = FALSE
re_numbers(s, p) ==
    LET n2s(n1) == {n \in 1..DigitRun(s, p + n1 + 1) :
                        re_outer(s, p + n1 + 1 + n).ok}
        n1s == {n \in 1..DigitRun(s, p) :
                    CharAt(s, p + n, ".") /\ n2s(n) # {}}
    IN  IF n1s = {} THEN [ok |-> FALSE, groups |-> <<>>]
        ELSE LET n1 == Longest(n1s)
                 n2 == Longest(n2s(n1))
                 rest == re_outer(s, p + n1 + 1 + n2)
             IN  [ok |-> TRUE,
                  groups |-> <<SubSeq(s, p, p + n1 - 1),
                               SubSeq(s, p + n1 + 1, p + n1 + n2),
                               rest.g3, rest.g4>>]

\* the pattern tried at start position i
re_match_at(s, i) ==
    IF HasAt(s, i, VersionLiteral)
    THEN re_numbers(s, i + Len(VersionLiteral))
    ELSE [ok |-> FALSE, groups |-> <<>>]

\* re.search(pattern, s): the match at the leftmost start that has one
re_search(s) ==
    LET starts == {i \in 1..Len(s) : re_match_at(s, i).ok}
    IN  IF starts = {} THEN [ok |-> FALSE, groups |-> <<>>]
        ELSE re_match_at(s, CHOOSE i \in starts : \A j \in starts : i <= j)

\* tuple(int(d) for d in ma.groups() if d is not None)
RECURSIVE IntTuple(_)
IntTuple(groups) ==
    IF groups = <<>> THEN <<>>
    ELSE IF Head(groups) = None THEN IntTuple(Tail(groups))
    ELSE <<ToInt(Head(groups))>> \o IntTuple(Tail(groups))

\* returns an empty tuple when the banner cannot be parsed
version_empty_on_failure(proc) ==
    LET cmd == <<DOT_BINARY, <<"-", "V">>>>
        inv == Invocation(cmd, None, None, "stdout=PIPE, stderr=STDOUT", proc)
        r == run_check(cmd, proc)
    IN  IF r.kind # "ok" THEN [res |-> r, runs |-> <<inv>>]
        ELSE [res |-> Return(IntTuple(re_search(r.value).groups)),
              runs |-> <<inv>>]

version(proc) ==
    LET cmd == <<DOT_BINARY, <<"-", "V">>>>
        inv == Invocation(cmd, None, None, "stdout=PIPE, stderr=STDOUT", proc)
        r == run_check(cmd, proc)
        ma == re_search(r.value)
    IN  IF r.kind # "ok" THEN [res |-> r, runs |-> <<inv>>]
        ELSE IF ~ma.ok
        THEN [res |-> Raise("RuntimeError", "cannot parse output: ", r.value),
              runs |-> <<inv>>]
        ELSE [res |-> Return(IntTuple(ma.groups)), runs |-> <<inv>>]

(***************************************************************************)
(* Inputs of the facade calls                                              *)
(***************************************************************************)
\* <<engine, format, renderer, formatter>>: valid requests with zero, one
\* and two of the optional members, a formatter without renderer, and
\* requests with a member outside its set
Requests ==
    { <<<<"d", "o", "t">>, <<"p", "d", "f">>, None, None>>,
      <<<<"n", "e", "a", "t", "o">>, <<"s", "v", "g">>, <<"c", "a", "i", "r", "o">>, None>>,
      <<<<"d", "o", "t">>, <<"p", "n", "g">>, <<"c", "a", "i", "r", "o">>, <<"g", "d">>>>,
      <<<<"d", "o", "t">>, <<"p", "d", "f">>, None, <<"c", "o", "r", "e">>>>,
      <<<<"D", "O", "T">>, <<"p", "d", "f">>, None, None>>,
      <<<<"d", "o", "t">>, <<"s", "v", "g">>, <<"c", "a", "i", "r", "o">>, <<"x">>>> }

Filepaths ==
    { <<"g", ".", "g", "v">>, <<"d", "i", "r", "/", "g", ".", "g", "v">>, <<"/", "a", "b", "s", "/", "g", ".", "g", "v">>, <<"/", "g", ".", "g", "v">>,
      <<"a", "/", "b", "/", "g", ".", "g", "v">>, <<"d", "i", "r", "/", "/", "g", ".", "g", "v">>, <<"d", "i", "r", "/">> }

Sources == { <<"g", "r", "a", "p", "h", " ", "{", " ", "a", " ", "-", "-", " ", "b", " ", "}">> }

ProcFailures ==
    { [found |-> FALSE, returncode |-> 0, stdout |-> <<>>],
      [found |-> TRUE, returncode |-> 1, stdout |-> <<>>] }

RenderProcs == ProcFailures \cup {[found |-> TRUE, returncode |-> 0, stdout |-> <<>>]}

PipeProcs ==
    ProcFailures \cup {[found |-> TRUE, returncode |-> 0, stdout |-> <<"<", "?", "x", "m", "l">>]}

\* banners of 'dot -V': text before the literal, the literal or a near
\* miss of it, a version text, and what follows it
BannerPrefixes == { <<>>, <<"d", "o", "t", " ", "-", " ">> }

BannerLiterals == { <<"g", "r", "a", "p", "h", "v", "i", "z", " ", "v", "e", "r", "s", "i", "o", "n", " ">>, <<"g", "r", "a", "p", "h", "v", "i", "z", " ", "v", "e", "r", "s", "i", "o", "n">> }

BannerVersions ==
    { <<"1", ".", "2">>, <<"1", ".", "2", ".", "3">>, <<"2", ".", "4", "4", ".", "1">>, <<"0", "0", "7", ".", "0", "8">>,
      <<"2", ".", "4", "3", ".", "2", "0", "1", "9", "0", "9", "1", "2", ".", "0", "2", "1", "1">>,
      <<"2", ".", "4", "4", ".", "2", "~", "d", "e", "v", ".", "2", "0", "2", "0", "0", "9", "2", "7", ".", "0", "2", "1", "7">>,
      <<"2", ".", "4", "4", ".", "2", "~", "d", "e", "v", ".", "2", "0", "2", "0", "0", "7", "0", "4", ".", "1", "6", "5", "2">>,
      <<"2">>, <<"2", ".">>, <<"1", ".", "2", ".">>, <<"1", ".", "2", ".", "3", ".">>, <<"1", ".", "2", ".", "3", ".", "4", ".", "5">>, <<"x", ".", "y">>,
      <<"2", ".", "4", "4", ".", "2", "~", "d", "e", "v">>,
      <<"2", ".", "4", "4", ".", "2", "~", "d", "e", "v", ".", "2", "0", "2", "0", ".", "0", "2", "1", "7">>,
      <<"2", ".", "4", "4", ".", "2", "~", "d", "e", "v", ".", "2", "0", "2", "0", "0", "9", "2", "7", ".", "0", "2", "1", "7", "8">>,
      <<"2", ".", "4", "4", ".", "2", "~", "d", "e", "v", ".", "2", "0", "2", "0", "0", "9", "2", "7", ".", "0", "2", "1", "7", ".", "5">>,
      <<"2", ".", "4", "4", "~", "d", "e", "v", ".", "2", "0", "2", "0", "0", "9", "2", "7", ".", "0", "2", "1", "7">>,
      <<"1", ".", " ", "g", "r", "a", "p", "h", "v", "i", "z", " ", "v", "e", "r", "s", "i", "o", "n", " ", "3", ".", "4">> }

BannerSuffixes == { <<>>, <<" ">>, <<" ", "(", "m", "o", "c", "k", "e", "d", ")">>, <<"\n">>, <<" ", "(", "2", "0", "1", "9", "0", "9", "1", "2", ".", "0", "2", "1", "1", ")", "\n">> }

Banners ==
    { pre \o lit \o ver \o post :
        pre \in BannerPrefixes, lit \in BannerLiterals,
        ver \in BannerVersions, post \in BannerSuffixes }
    \cup { <<"n", "o", "n", "v", "e", "r", "s", "i", "o", "n", "i", "n", "f", "o">> }

VersionProcs ==
    ProcFailures
    \cup {[found |-> TRUE, returncode |-> 0, stdout |-> b] : b \in Banners}

\* number of threads calling set_default_* concurrently
NumThreads == 2

Threads == 1..NumThreads

\* values the concurrent set_default_* calls are tried with
RaceArgs ==
    [engine |-> { <<"d", "o", "t">>, <<"n", "e", "a", "t", "o">>,
                  <<"b", "o", "g", "u", "s">> },
     format |-> { <<"p", "d", "f">>, <<"s", "v", "g">> }]

(***************************************************************************)
(* set_default_engine / set_default_format statement by statement, as a    *)
(* thread executes it: the membership test, the read of the class          *)
(* attribute into old_default_*, the write of the class attribute and the  *)
(* return.  Another thread may run between any two of them.                *)
(***************************************************************************)
\* 'if engine not in ENGINES' / 'if format not in FORMATS'
sde_known(attr, v) == IF attr = "engine" THEN v \in ENGINES ELSE v \in FORMATS

\* raise ValueError(f'unknown engine: {engine!r}')
sde_raise(attr, v) ==
    Raise("ValueError",
          IF attr = "engine" THEN "unknown engine: " ELSE "unknown format: ", v)

\* returns the value written
sde_return_new(old_default, v) == Return(v)

\* return old_default_engine / return old_default_format
sde_return(old_default, v) == Return(old_default)

\* a thread outside any call; clean and replaced are history: whether no
\* other thread wrote the attribute since this call read it, and the value
\* this call's write replaced
IdleThread ==
    [pc |-> "idle", attr |-> "engine", arg |-> None, old |-> None,
     clean |-> TRUE, replaced |-> None, res |-> Return(None)]

(***************************************************************************)
(* State                                                                   *)
(***************************************************************************)
VARIABLES
    default_engine,   \* class attribute Graphviz._engine
    default_format,   \* class attribute Graphviz._format
    objs,             \* the __dict__ of every Graphviz instance created
    given,            \* history: per instance, the engine and format last
                      \* stored by a successful assignment (None: never)
    scopes,           \* values returned by set_default_* that a caller
                      \* keeps for a restore, with (history) the default in
                      \* force before the call
    ret,              \* the last call: operation, arguments, outcome
    runs,             \* run_check invocations made by the last call
    threads           \* per thread, its set_default_* call in progress

vars == <<default_engine, default_format, objs, given, scopes, ret, runs,
          threads>>

Init ==
    /\ default_engine = <<"d", "o", "t">>
    /\ default_format = <<"p", "d", "f">>
    /\ objs = <<>>
    /\ given = <<>>
    /\ scopes = <<>>
    /\ ret = [op |-> "init", args |-> <<>>, res |-> Return(None)]
    /\ runs = <<>>
    /\ threads = [t \in Threads |-> IdleThread]

DoCommand ==
    \E engine \in EngineArgs, format_ \in FormatArgs,
       renderer \in RendererArgs, formatter \in FormatterArgs :
        /\ ret' = [op |-> "command",
                   args |-> <<engine, format_, renderer, formatter>>,
                   res |-> command(engine, format_, renderer, formatter)]
        /\ runs' = <<>>
        /\ UNCHANGED <<default_engine, default_format, objs, given, scopes, threads>>

\* set_default_engine(engine), the returned value dropped or kept
SetDefaultEngine(engine, keep) ==
    LET call == set_default_engine(engine, default_engine)
    IN  /\ default_engine' = call.attr
        /\ ret' = [op |-> "set_default_engine", args |-> <<engine>>,
                   res |-> call.res]
        /\ scopes' = IF keep /\ call.res.kind = "ok"
                     THEN Append(scopes, [attr |-> "engine",
                                          returned |-> call.res.value,
                                          before |-> default_engine,
                                          restored |-> FALSE])
                     ELSE scopes
        /\ runs' = <<>>
        /\ UNCHANGED <<default_format, objs, given, threads>>

\* set_default_format(format), the returned value dropped or kept
SetDefaultFormat(format, keep) ==
    LET call == set_default_format(format, default_format)
    IN  /\ default_format' = call.attr
        /\ ret' = [op |-> "set_default_format", args |-> <<format>>,
                   res |-> call.res]
        /\ scopes' = IF keep /\ call.res.kind = "ok"
                     THEN Append(scopes, [attr |-> "format",
                                          returned |-> call.res.value,
                                          before |-> default_format,
                                          restored |-> FALSE])
                     ELSE scopes
        /\ runs' = <<>>
        /\ UNCHANGED <<default_engine, objs, given, threads>>

DoSetDefaultEngine == \E engine \in EngineArgs : SetDefaultEngine(engine, FALSE)

DoSetDefaultFormat == \E format \in FormatArgs : SetDefaultFormat(format, FALSE)

\* old = set_default_engine(engine), old kept by the caller
DoScopedSetDefaultEngine ==
    /\ Len(scopes) < MaxScopes
    /\ \E engine \in EngineArgs : SetDefaultEngine(engine, TRUE)

DoScopedSetDefaultFormat ==
    /\ Len(scopes) < MaxScopes
    /\ \E format \in FormatArgs : SetDefaultFormat(format, TRUE)

\* set_default_engine(old) / set_default_format(old) with a kept value
Restore(k) ==
    /\ ~scopes[k].restored
    /\ IF scopes[k].attr = "engine"
       THEN LET call == set_default_engine(scopes[k].returned, default_engine)
            IN  /\ default_engine' = call.attr
                /\ ret' = [op |-> "set_default_engine",
                           args |-> <<scopes[k].returned>>, res |-> call.res]
                /\ UNCHANGED default_format
       ELSE LET call == set_default_format(scopes[k].returned, default_format)
            IN  /\ default_format' = call.attr
                /\ ret' = [op |-> "set_default_format",
                           args |-> <<scopes[k].returned>>, res |-> call.res]
                /\ UNCHANGED default_engine
    /\ scopes' = [scopes EXCEPT ![k].restored = TRUE]
    /\ runs' = <<>>
    /\ UNCHANGED <<objs, given, threads>>

DoRestore == \E k \in DOMAIN scopes : Restore(k)

\* Graphviz(format, engine, renderer=renderer, formatter=formatter)
DoNew ==
    /\ Len(objs) < MaxObjs
    /\ \E format \in ObjFormatArgs \cup {None},
          engine \in ObjEngineArgs \cup {None},
          renderer \in ObjRendererArgs, formatter \in ObjFormatterArgs :
        LET call == Graphviz__init__(format, engine, renderer, formatter)
        IN  /\ ret' = [op |-> "Graphviz",
                       args |-> <<format, engine, renderer, formatter>>,
                       res |-> call.res]
            /\ IF call.res.kind = "ok"
               THEN /\ objs' = Append(objs, call.self)
                    /\ given' = Append(given,
                          [engine |-> IF engine = None THEN None ELSE Lower(engine),
                           format |-> IF format = None THEN None ELSE Lower(format)])
               ELSE UNCHANGED <<objs, given>>
    /\ runs' = <<>>
    /\ UNCHANGED <<default_engine, default_format, scopes, threads>>

\* obj.engine = engine
DoSetEngine ==
    \E i \in DOMAIN objs, engine \in ObjEngineArgs :
        LET call == set_engine(objs[i], engine)
        IN  /\ objs' = [objs EXCEPT ![i] = call.self]
            /\ given' = IF call.res.kind = "ok"
                        THEN [given EXCEPT ![i].engine = Lower(engine)]
                        ELSE given
            /\ ret' = [op |-> "engine.setter", args |-> <<i, engine>>,
                       res |-> call.res]
            /\ runs' = <<>>
            /\ UNCHANGED <<default_engine, default_format, scopes, threads>>

\* obj.format = format
DoSetFormat ==
    \E i \in DOMAIN objs, format \in ObjFormatArgs :
        LET call == set_format(objs[i], format)
        IN  /\ objs' = [objs EXCEPT ![i] = call.self]
            /\ given' = IF call.res.kind = "ok"
                        THEN [given EXCEPT ![i].format = Lower(format)]
                        ELSE given
            /\ ret' = [op |-> "format.setter", args |-> <<i, format>>,
                       res |-> call.res]
            /\ runs' = <<>>
            /\ UNCHANGED <<default_engine, default_format, scopes, threads>>

\* obj.renderer = renderer
DoSetRenderer ==
    \E i \in DOMAIN objs, renderer \in ObjRendererArgs :
        LET call == set_renderer(objs[i], renderer)
        IN  /\ objs' = [objs EXCEPT ![i] = call.self]
            /\ ret' = [op |-> "renderer.setter", args |-> <<i, renderer>>,
                       res |-> call.res]
            /\ runs' = <<>>
            /\ UNCHANGED <<default_engine, default_format, given, scopes, threads>>

\* obj.formatter = formatter
DoSetFormatter ==
    \E i \in DOMAIN objs, formatter \in ObjFormatterArgs :
        LET call == set_formatter(objs[i], formatter)
        IN  /\ objs' = [objs EXCEPT ![i] = call.self]
            /\ ret' = [op |-> "formatter.setter", args |-> <<i, formatter>>,
                       res |-> call.res]
            /\ runs' = <<>>
            /\ UNCHANGED <<default_engine, default_format, given, scopes, threads>>

\* render(engine, format, filepath, renderer, formatter)
DoRender ==
    \E q \in Requests, filepath \in Filepaths, proc \in RenderProcs :
        LET call == render(q[1], q[2], filepath, q[3], q[4], proc)
        IN  /\ ret' = [op |-> "render",
                       args |-> <<q[1], q[2], filepath, q[3], q[4]>>,
                       res |-> call.res]
            /\ runs' = call.runs
            /\ UNCHANGED <<default_engine, default_format, objs, given, scopes, threads>>

\* pipe(engine, format, data, renderer, formatter)
DoPipe ==
    \E q \in Requests, data \in Sources, proc \in PipeProcs :
        LET call == pipe(q[1], q[2], data, q[3], q[4], proc)
        IN  /\ ret' = [op |-> "pipe",
                       args |-> <<q[1], q[2], data, q[3], q[4]>>,
                       res |-> call.res]
            /\ runs' = call.runs
            /\ UNCHANGED <<default_engine, default_format, objs, given, scopes, threads>>

\* pipe_string(engine, format, input_string, encoding=, renderer=, formatter=)
DoPipeString ==
    \E q \in Requests, input_string \in Sources, proc \in PipeProcs :
        LET call == pipe_string(q[1], q[2], input_string, q[3], q[4], proc)
        IN  /\ ret' = [op |-> "pipe_string",
                       args |-> <<q[1], q[2], input_string, q[3], q[4]>>,
                       res |-> call.res]
            /\ runs' = call.runs
            /\ UNCHANGED <<default_engine, default_format, objs, given, scopes, threads>>

\* pipe_lines(engine, format, input_lines, input_encoding=, renderer=, formatter=)
DoPipeLines ==
    \E q \in Requests, input_lines \in Sources, proc \in PipeProcs :
        LET call == pipe_lines(q[1], q[2], input_lines, q[3], q[4], proc)
        IN  /\ ret' = [op |-> "pipe_lines",
                       args |-> <<q[1], q[2], input_lines, q[3], q[4]>>,
                       res |-> call.res]
            /\ runs' = call.runs
            /\ UNCHANGED <<default_engine, default_format, objs, given, scopes, threads>>

\* pipe_lines_string(engine, format, input_lines, encoding=, renderer=, formatter=)
DoPipeLinesString ==
    \E q \in Requests, input_lines \in Sources, proc \in PipeProcs :
        LET call == pipe_lines_string(q[1], q[2], input_lines, q[3], q[4], proc)
        IN  /\ ret' = [op |-> "pipe_lines_string",
                       args |-> <<q[1], q[2], input_lines, q[3], q[4]>>,
                       res |-> call.res]
            /\ runs' = call.runs
            /\ UNCHANGED <<default_engine, default_format, objs, given, scopes, threads>>

\* version()
DoVersion ==
    \E proc \in VersionProcs :
        LET call == version(proc)
        IN  /\ ret' = [op |-> "version", args |-> <<>>, res |-> call.res]
            /\ runs' = call.runs
            /\ UNCHANGED <<default_engine, default_format, objs, given, scopes, threads>>

\* thread t calls set_default_<attr>(v): the membership test
ThreadCall(t) ==
    /\ threads[t].pc \in {"idle", "returned", "raised"}
    /\ \E attr \in {"engine", "format"} : \E v \in RaceArgs[attr] :
        threads' = [threads EXCEPT ![t] =
            IF sde_known(attr, v)
            THEN [IdleThread EXCEPT !.pc = "checked", !.attr = attr, !.arg = v]
            ELSE [IdleThread EXCEPT !.pc = "raised", !.attr = attr, !.arg = v,
                                    !.res = sde_raise(attr, v)]]
    /\ UNCHANGED <<default_engine, default_format, objs, given, scopes,
                   ret, runs>>

\* old_default_engine = Graphviz._engine
ThreadRead(t) ==
    /\ threads[t].pc = "checked"
    /\ threads' = [threads EXCEPT ![t].pc = "read",
                                  ![t].old = IF threads[t].attr = "engine"
                                             THEN default_engine
                                             ELSE default_format,
                                  ![t].clean = TRUE]
    /\ UNCHANGED <<default_engine, default_format, objs, given, scopes,
                   ret, runs>>

\* Graphviz._engine = engine; return old_default_engine
ThreadWrite(t) ==
    /\ threads[t].pc = "read"
    /\ LET attr == threads[t].attr
           cur == IF attr = "engine" THEN default_engine ELSE default_format
       IN  /\ IF attr = "engine"
              THEN default_engine' = threads[t].arg /\ UNCHANGED default_format
              ELSE default_format' = threads[t].arg /\ UNCHANGED default_engine
           /\ threads' = [u \in Threads |->
                IF u = t
                THEN [threads[t] EXCEPT
                        !.pc = "returned",
                        !.replaced = cur,
                        !.res = sde_return(threads[t].old, threads[t].arg)]
                ELSE IF threads[u].pc = "read" /\ threads[u].attr = attr
                THEN [threads[u] EXCEPT !.clean = FALSE]
                ELSE threads[u]]
    /\ UNCHANGED <<objs, given, scopes, ret, runs>>

DoThreadCall == \E t \in Threads : ThreadCall(t)

DoThreadRead == \E t \in Threads : ThreadRead(t)

DoThreadWrite == \E t \in Threads : ThreadWrite(t)

\* An instance builds its command: command(self._engine,
\* **self._get_backend_kwargs(format=, renderer=, formatter=)).  ret.args
\* holds the request handed to command().
DoBackendCommand ==
    \E i \in DOMAIN objs, format \in KwFormatArgs,
       renderer \in KwRendererArgs, formatter \in KwFormatterArgs :
        LET kw == get_backend_kwargs(objs[i], format, renderer, formatter,
                                     default_format)
            engine == get_engine(objs[i], default_engine)
        IN  /\ ret' = [op |-> "backend_command",
                       args |-> <<engine, kw.format, kw.renderer, kw.formatter>>,
                       res |-> command(engine, kw.format, kw.renderer,
                                       kw.formatter)]
            /\ runs' = <<>>
            /\ UNCHANGED <<default_engine, default_format, objs, given, scopes,
                           threads>>

\* command() and the validation of the set_default_* functions
NextCommand == DoCommand \/ DoSetDefaultEngine \/ DoSetDefaultFormat

SpecCommand == Init /\ [][NextCommand]_vars

\* the process-wide defaults swapped and restored by a single caller
NextSwap ==
    \/ DoSetDefaultEngine
    \/ DoSetDefaultFormat
    \/ DoScopedSetDefaultEngine
    \/ DoScopedSetDefaultFormat
    \/ DoRestore

SpecSwap == Init /\ [][NextSwap]_vars

\* Graphviz instances under changing process-wide defaults
NextObjects ==
    \/ DoSetDefaultEngine
    \/ DoSetDefaultFormat
    \/ DoNew
    \/ DoSetEngine
    \/ DoSetFormat
    \/ DoSetRenderer
    \/ DoSetFormatter

SpecObjects == Init /\ [][NextObjects]_vars

\* the facade functions and version() over the process runner
NextFacade ==
    \/ DoRender
    \/ DoPipe
    \/ DoPipeString
    \/ DoPipeLines
    \/ DoPipeLinesString
    \/ DoVersion

SpecFacade == Init /\ [][NextFacade]_vars

\* requests assembled from the renderer and formatter of Graphviz instances
NextRequests ==
    \/ DoNew
    \/ DoSetRenderer
    \/ DoSetFormatter
    \/ DoBackendCommand

SpecRequests == Init /\ [][NextRequests]_vars

\* set_default_* called from several threads at once
NextRace == DoThreadCall \/ DoThreadRead \/ DoThreadWrite

SpecRace == Init /\ [][NextRace]_vars

Next ==
    \/ NextCommand
    \/ NextSwap
    \/ NextObjects
    \/ NextFacade
    \/ NextRequests
    \/ NextRace

Spec == Init /\ [][Next]_vars

(***************************************************************************)
(* Properties of command() and of the set_default_* validation             *)
(***************************************************************************)
IsCommandCall == ret.op = "command"

\* the arguments of the last command() call
arg_engine == ret.args[1]
arg_format == ret.args[2]
arg_renderer == ret.args[3]
arg_formatter == ret.args[4]

\* C1: every command() call with a formatter and no renderer raises
\* RequiredArgumentError and returns no command, whatever engine and format
\* are, members of ENGINES and FORMATS or not.
C1_FormatterNeedsRenderer ==
    (IsCommandCall /\ arg_formatter # None /\ arg_renderer = None)
        => /\ ret.res.kind = "RequiredArgumentError"
           /\ ret.res.value = None

C1_Witness ==
    /\ IsCommandCall
    /\ arg_formatter # None /\ arg_renderer = None
    /\ arg_engine \notin ENGINES /\ arg_format \notin FORMATS
    /\ ret.res.kind = "RequiredArgumentError"

\* the ':'-join of the non-absent members of (format, renderer, formatter)
\* for a request whose formatter is absent or whose renderer is present
C2_Token ==
    IF arg_renderer = None THEN arg_format
    ELSE IF arg_formatter = None THEN arg_format \o <<":">> \o arg_renderer
    ELSE arg_format \o <<":">> \o arg_renderer \o <<":">> \o arg_formatter

C2_ValidRequest ==
    /\ IsCommandCall
    /\ arg_engine \in ENGINES
    /\ arg_format \in FORMATS
    /\ arg_renderer = None \/ arg_renderer \in RENDERERS
    /\ arg_formatter = None \/ arg_formatter \in FORMATTERS
    /\ arg_formatter = None \/ arg_renderer # None

\* C2: a command() call with members of the capability sets, formatter
\* absent or renderer present, returns exactly the three tokens DOT_BINARY,
\* '-K' + engine, '-T' + format[:renderer[:formatter]].
C2_CommandTokens ==
    C2_ValidRequest
        => /\ ret.res.kind = "ok"
           /\ ret.res.value = <<DOT_BINARY,
                                <<"-", "K">> \o arg_engine,
                                <<"-", "T">> \o C2_Token>>

C2_Witness ==
    /\ C2_ValidRequest
    /\ arg_renderer # None /\ arg_formatter # None
    /\ arg_renderer # arg_formatter
    /\ Len(ret.res.value) = 3

\* the (message text, value) pairs of the arguments outside their set
C3_Offending ==
    (IF arg_engine \in ENGINES THEN {}
     ELSE {<<"unknown engine: ", arg_engine>>})
    \cup (IF arg_format \in FORMATS THEN {}
          ELSE {<<"unknown format: ", arg_format>>})
    \cup (IF arg_renderer = None \/ arg_renderer \in RENDERERS THEN {}
          ELSE {<<"unknown renderer: ", arg_renderer>>})
    \cup (IF arg_formatter = None \/ arg_formatter \in FORMATTERS THEN {}
          ELSE {<<"unknown formatter: ", arg_formatter>>})

\* C3: a command() call that respects the formatter-without-renderer rule
\* and has an argument outside its capability set raises ValueError naming
\* such an argument and returns no command; set_default_engine(v) with v
\* outside ENGINES and set_default_format(v) with v outside FORMATS raise
\* ValueError naming v.
C3_UnknownCapability ==
    /\ (/\ IsCommandCall
        /\ ~(arg_formatter # None /\ arg_renderer = None)
        /\ C3_Offending # {})
        => /\ ret.res.kind = "ValueError"
           /\ <<ret.res.text, ret.res.embeds>> \in C3_Offending
           /\ ret.res.value = None
    /\ (ret.op = "set_default_engine" /\ ret.args[1] \notin ENGINES)
        => /\ ret.res.kind = "ValueError"
           /\ ret.res.text = "unknown engine: "
           /\ ret.res.embeds = ret.args[1]
    /\ (ret.op = "set_default_format" /\ ret.args[1] \notin FORMATS)
        => /\ ret.res.kind = "ValueError"
           /\ ret.res.text = "unknown format: "
           /\ ret.res.embeds = ret.args[1]

C3_Witness ==
    /\ IsCommandCall
    /\ arg_engine \in ENGINES /\ arg_format \in FORMATS
    /\ arg_renderer \in RENDERERS
    /\ arg_formatter # None /\ arg_formatter \notin FORMATTERS
    /\ ret.res.kind = "ValueError"
    /\ ret.res.embeds = arg_formatter

\* b is a re-casing of a: the same letters in upper or lower case
Recased(a, b) ==
    IF a = None \/ b = None THEN a = b ELSE Lower(a) = Lower(b)

\* C4: validation is case-insensitive: a re-casing of the arguments of a
\* command(), set_default_engine() or set_default_format() call is accepted
\* exactly when the call was.
C4_CaseInsensitive ==
    /\ IsCommandCall
        => \A e \in EngineArgs, f \in FormatArgs,
              r \in RendererArgs, fm \in FormatterArgs :
                (/\ Recased(arg_engine, e) /\ Recased(arg_format, f)
                 /\ Recased(arg_renderer, r) /\ Recased(arg_formatter, fm))
                    => command(e, f, r, fm).kind = ret.res.kind
    /\ ret.op = "set_default_engine"
        => \A e \in EngineArgs :
                Recased(ret.args[1], e)
                    => set_default_engine(e, default_engine).res.kind = ret.res.kind
    /\ ret.op = "set_default_format"
        => \A f \in FormatArgs :
                Recased(ret.args[1], f)
                    => set_default_format(f, default_format).res.kind = ret.res.kind

(***************************************************************************)
(* Properties of the process-wide defaults                                 *)
(***************************************************************************)
\* C5: a successful set_default_engine(e) makes e the default engine,
\* returns the default in force immediately before and leaves the default
\* format alone (symmetrically for set_default_format); calling the setter
\* again with a value it returned succeeds and brings back the default that
\* was in force before the call that returned it.
C5_SwapReturnsPrevious ==
    [][/\ (ret'.op = "set_default_engine" /\ ret'.res.kind = "ok")
            => /\ default_engine' = ret'.args[1]
               /\ ret'.res.value = default_engine
               /\ default_format' = default_format
       /\ (ret'.op = "set_default_format" /\ ret'.res.kind = "ok")
            => /\ default_format' = ret'.args[1]
               /\ ret'.res.value = default_format
               /\ default_engine' = default_engine
       /\ \A k \in DOMAIN scopes :
            (~scopes[k].restored /\ scopes'[k].restored)
                => /\ ret'.res.kind = "ok"
                   /\ scopes[k].attr = "engine"
                        => default_engine' = scopes[k].before
                   /\ scopes[k].attr = "format"
                        => default_format' = scopes[k].before]_vars

\* two nested scopes on the default engine, both restored, inner first
C5_Witness ==
    /\ Len(scopes) = 2
    /\ scopes[1].attr = "engine" /\ scopes[2].attr = "engine"
    /\ scopes[1].restored /\ scopes[2].restored
    /\ scopes[1].before # scopes[2].before
    /\ ret.op = "set_default_engine" /\ ret.res.kind = "ok"
    /\ default_engine = scopes[1].before

\* C6: at every point, an instance never given its own engine (format)
\* reports the current process-wide default engine (format), and an
\* instance given its own reports the value stored for it, whatever
\* set_default_* calls came later.
C6_DefaultOnlyWhenUnset ==
    \A i \in DOMAIN objs :
        /\ get_engine(objs[i], default_engine)
             = IF given[i].engine = None THEN default_engine
               ELSE given[i].engine
        /\ get_format(objs[i], default_format)
             = IF given[i].format = None THEN default_format
               ELSE given[i].format

\* after a set_default_engine call: an instance with its own engine that
\* differs from the new default, and no format of its own while the default
\* format is no longer the initial one
C6_Witness ==
    \E i \in DOMAIN objs :
        /\ given[i].engine # None /\ given[i].format = None
        /\ ret.op = "set_default_engine" /\ ret.res.kind = "ok"
        /\ default_engine # given[i].engine
        /\ default_format # <<"p", "d", "f">>
        /\ get_format(objs[i], default_format) = default_format

(***************************************************************************)
(* Properties of version()                                                 *)
(***************************************************************************)
\* the fields of v between occurrences of '.'
RECURSIVE SplitDots(_)
SplitDots(v) ==
    IF \E k \in 1..Len(v) : v[k] = "."
    THEN LET k == CHOOSE k \in 1..Len(v) :
                    v[k] = "." /\ \A j \in 1..(k - 1) : v[j] # "."
         IN  <<SubSeq(v, 1, k - 1)>> \o SplitDots(SubSeq(v, k + 1, Len(v)))
    ELSE <<v>>

AllDigits(w) == w # <<>> /\ \A k \in 1..Len(w) : w[k] \in Digits

\* w is PATCH followed by the development-build marker '~dev'
IsDevPatch(w) ==
    /\ Len(w) > 4
    /\ SubSeq(w, Len(w) - 3, Len(w)) = <<"~", "d", "e", "v">>
    /\ AllDigits(SubSeq(w, 1, Len(w) - 4))

\* The version grammar MAJOR.MINOR[.PATCH[~dev.YYYYMMDD.HHMM | .SUBPATCH]]
\* read off a version text v: the numbers it stands for, if it is one.
GrammarTuples(v) ==
    LET f == SplitDots(v)
    IN  IF Len(f) \in 2..4 /\ \A k \in 1..Len(f) : AllDigits(f[k])
        THEN {[k \in 1..Len(f) |-> ToInt(f[k])]}
        ELSE IF /\ Len(f) = 5
                /\ AllDigits(f[1]) /\ AllDigits(f[2]) /\ IsDevPatch(f[3])
                /\ AllDigits(f[4]) /\ Len(f[4]) = 8
                /\ AllDigits(f[5]) /\ Len(f[5]) = 4
        THEN {<<ToInt(f[1]), ToInt(f[2]),
                ToInt(SubSeq(f[3], 1, Len(f[3]) - 4))>>}
        ELSE {}

\* every way text s holds 'graphviz version ', a version text and a space
GrammarMatches(s) ==
    UNION { GrammarTuples(SubSeq(s, ij[1] + Len(VersionLiteral), ij[2] - 1)) :
            ij \in {x \in (1..Len(s)) \X (1..Len(s)) :
                        /\ HasAt(s, x[1], VersionLiteral)
                        /\ x[2] >= x[1] + Len(VersionLiteral)
                        /\ s[x[2]] = " "} }

\* the last call was version() and the subprocess ran and exited with 0
VersionRan ==
    /\ ret.op = "version"
    /\ Len(runs) = 1
    /\ runs[1].proc.found /\ runs[1].proc.returncode = 0

Captured == runs[1].proc.stdout

\* C7: when the captured banner matches the version grammar, version()
\* returns the numbers of a match in order: 2 to 4 integers, major and
\* minor first, a 4th only for MAJOR.MINOR.PATCH.SUBPATCH, and 3 for the
\* '~dev.YYYYMMDD.HHMM' form, whose payload is dropped.
C7_VersionTuple ==
    /\ (VersionRan /\ GrammarMatches(Captured) # {})
        => /\ ret.res.kind = "ok"
           /\ ret.res.value \in GrammarMatches(Captured)
           /\ Len(ret.res.value) \in 2..4
    /\ (VersionRan /\ Captured = <<"g", "r", "a", "p", "h", "v", "i", "z", " ", "v", "e", "r", "s", "i", "o", "n", " ", "1", ".", "2", ".", "3", " ", "(", "m", "o", "c", "k", "e", "d", ")">>)
        => ret.res.value = <<1, 2, 3>>
    /\ (VersionRan
        /\ Captured = <<"d", "o", "t", " ", "-", " ", "g", "r", "a", "p", "h", "v", "i", "z", " ", "v", "e", "r", "s", "i", "o", "n", " ", "2", ".", "4", "3", ".", "2", "0", "1", "9", "0", "9", "1", "2", ".", "0", "2", "1", "1", " ", "(", "2", "0", "1", "9", "0", "9", "1", "2", ".", "0", "2", "1", "1", ")", "\n">>)
        => ret.res.value = <<2, 43, 20190912, 211>>
    /\ (VersionRan
        /\ Captured = <<"d", "o", "t", " ", "-", " ", "g", "r", "a", "p", "h", "v", "i", "z", " ", "v", "e", "r", "s", "i", "o", "n", " ", "2", ".", "4", "4", ".", "2", "~", "d", "e", "v", ".", "2", "0", "2", "0", "0", "9", "2", "7", ".", "0", "2", "1", "7", " ", "(", "m", "o", "c", "k", "e", "d", ")">>)
        => ret.res.value = <<2, 44, 2>>

C7_Witness ==
    /\ VersionRan
    /\ Captured = <<"d", "o", "t", " ", "-", " ", "g", "r", "a", "p", "h", "v", "i", "z", " ", "v", "e", "r", "s", "i", "o", "n", " ", "2", ".", "4", "4", ".", "2", "~", "d", "e", "v", ".", "2", "0", "2", "0", "0", "9", "2", "7", ".", "0", "2", "1", "7", " ", "(", "m", "o", "c", "k", "e", "d", ")">>
    /\ ret.res.kind = "ok"
    /\ Len(ret.res.value) = 3

\* C8: when the text captured from the one 'dot -V' run holds no match of
\* the version grammar, version() raises RuntimeError with that text in its
\* message and returns no tuple; run_check was called exactly once, with
\* [DOT_BINARY, '-V'] and stderr merged into stdout.
C8_VersionParseError ==
    (VersionRan /\ GrammarMatches(Captured) = {})
        => /\ ret.res.kind = "RuntimeError"
           /\ ret.res.embeds = Captured
           /\ ret.res.value = None
           /\ Len(runs) = 1
           /\ runs[1].cmd = <<DOT_BINARY, <<"-", "V">>>>
           /\ runs[1].capture = "stdout=PIPE, stderr=STDOUT"

C8_Witness ==
    /\ VersionRan
    /\ Captured = <<"n", "o", "n", "v", "e", "r", "s", "i", "o", "n", "i", "n", "f", "o">>
    /\ ret.res.kind = "RuntimeError"

(***************************************************************************)
(* Properties of the facade functions                                      *)
(***************************************************************************)
\* engine, format, renderer, formatter of the last render or pipe call
call_engine == ret.args[1]
call_format == ret.args[2]
call_input == ret.args[3]
call_renderer == ret.args[4]
call_formatter == ret.args[5]

\* the arguments of the last render or pipe call pass validation
ValidCall ==
    /\ call_engine \in ENGINES
    /\ call_format \in FORMATS
    /\ call_renderer = None \/ call_renderer \in RENDERERS
    /\ call_formatter = None \/ call_formatter \in FORMATTERS
    /\ call_formatter = None \/ call_renderer # None

\* the '.'-join of the non-absent members of (formatter, renderer, format)
C9_Suffix ==
    IF call_renderer = None THEN call_format
    ELSE IF call_formatter = None THEN call_renderer \o <<".">> \o call_format
    ELSE call_formatter \o <<".">> \o call_renderer \o <<".">> \o call_format

C9_Dirname == path_split(call_input)[1]

C9_Filename == path_split(call_input)[2]

\* C9: a valid render() call runs command(...) + ['-O', filename] once, in
\* dirname when that is non-empty and in no named directory otherwise, and
\* on success returns filename.<formatter.renderer.format> under dirname,
\* which is relative when the input path is.
C9_RenderCommandAndPath ==
    (ret.op = "render" /\ ValidCall)
        => /\ Len(runs) = 1
           /\ runs[1].cmd
                = command(call_engine, call_format,
                          call_renderer, call_formatter).value
                  \o <<<<"-", "O">>, C9_Filename>>
           /\ runs[1].cwd = IF C9_Dirname # <<>> THEN C9_Dirname ELSE None
           /\ (runs[1].proc.found /\ runs[1].proc.returncode = 0)
                => /\ ret.res.kind = "ok"
                   /\ ret.res.value
                        = IF C9_Dirname = <<>>
                          THEN C9_Filename \o <<".">> \o C9_Suffix
                          ELSE IF C9_Dirname[Len(C9_Dirname)] = "/"
                          THEN C9_Dirname \o C9_Filename \o <<".">> \o C9_Suffix
                          ELSE C9_Dirname \o <<"/">> \o C9_Filename
                               \o <<".">> \o C9_Suffix
                   /\ call_input[1] # "/" => ret.res.value[1] # "/"

\* a successful render of a file in a subdirectory with renderer and formatter
C9_Witness ==
    /\ ret.op = "render" /\ ValidCall
    /\ call_renderer # None /\ call_formatter # None
    /\ call_input = <<"a", "/", "b", "/", "g", ".", "g", "v">>
    /\ ret.res.kind = "ok"
    /\ ret.res.value = <<"a", "/", "b", "/", "g", ".", "g", "v", ".", "g", "d", ".", "c", "a", "i", "r", "o", ".", "p", "n", "g">>

FacadeOps ==
    {"render", "pipe", "pipe_string", "pipe_lines", "pipe_lines_string",
     "version"}

ValidationErrors == {"ValueError", "RequiredArgumentError"}

\* C10: every facade call invokes run_check at most once, never after a
\* failure; not at all when its arguments fail validation; and when
\* run_check fails with ExecutableNotFound or CalledProcessError the call
\* fails with that same error.
C10_OneRunNoRetry ==
    ret.op \in FacadeOps
        => /\ Len(runs) <= 1
           /\ (ret.op # "version" /\ ~ValidCall)
                => /\ runs = <<>>
                   /\ ret.res.kind \in ValidationErrors
           /\ ret.res.kind \in ValidationErrors => runs = <<>>
           /\ (Len(runs) >= 1 /\ ~runs[1].proc.found)
                => ret.res.kind = "ExecutableNotFound"
           /\ (Len(runs) >= 1 /\ runs[1].proc.found
               /\ runs[1].proc.returncode # 0)
                => ret.res.kind = "CalledProcessError"

\* a render whose subprocess exits non-zero: one run and the process error
C10_Witness ==
    /\ ret.op = "render"
    /\ Len(runs) = 1
    /\ runs[1].proc.found /\ runs[1].proc.returncode # 0
    /\ ret.res.kind = "CalledProcessError"

(***************************************************************************)
(* Properties of set_default_* under concurrent calls                      *)
(***************************************************************************)
\* C11 as stated: set_default_engine / set_default_format is an atomic
\* swap; in every interleaving each successful call returns the default
\* value that its own write replaced.
C11_AtomicSwap ==
    \A t \in Threads :
        threads[t].pc = "returned"
            => threads[t].res.value = threads[t].replaced

\* C11: a successful set_default_engine / set_default_format call returns
\* the default value that its own write replaced whenever no other call
\* wrote that default between this call's read and its write, as when calls
\* do not overlap; the value returned is always the one the call read.
C11_SwapWhenUndisturbed ==
    \A t \in Threads :
        threads[t].pc = "returned"
            => /\ threads[t].res.kind = "ok"
               /\ threads[t].res.value = threads[t].old
               /\ threads[t].clean
                    => threads[t].res.value = threads[t].replaced

\* two calls on the default engine have both returned, one undisturbed and
\* one overtaken by the other's write
C11_Witness ==
    \E t, u \in Threads :
        /\ t # u
        /\ threads[t].pc = "returned" /\ threads[u].pc = "returned"
        /\ threads[t].attr = "engine" /\ threads[u].attr = "engine"
        /\ threads[t].clean /\ ~threads[u].clean
        /\ threads[t].res.value = threads[t].replaced
        /\ threads[u].res.value # threads[u].replaced

(***************************************************************************)
(* Properties of the requests of Graphviz instances                        *)
(***************************************************************************)
\* C12 as stated: the rule 'formatter present implies renderer present' is
\* checked for every request, and no Graphviz instance reachable by
\* constructor calls and renderer/formatter assignments holds a formatter
\* without a renderer.
C12_NoFormatterWithoutRenderer ==
    /\ (ret.op = "backend_command"
        /\ arg_formatter # None /\ arg_renderer = None)
        => ret.res.kind = "RequiredArgumentError"
    /\ \A i \in DOMAIN objs :
        get_formatter(objs[i]) # None => get_renderer(objs[i]) # None

\* C12: the rule is checked when the command is built: a request assembled
\* from a Graphviz instance and the keywords of the call whose formatter is
\* present while its renderer is absent makes command() raise
\* RequiredArgumentError and no command is built from it.  (The instance
\* itself may hold a formatter without a renderer.)
C12_RuleCheckedAtCommand ==
    /\ (ret.op = "backend_command"
        /\ arg_formatter # None /\ arg_renderer = None)
        => /\ ret.res.kind = "RequiredArgumentError"
           /\ ret.res.value = None
    /\ (ret.op = "backend_command" /\ ret.res.kind = "ok")
        => (arg_formatter = None \/ arg_renderer # None)

\* an instance holding a formatter and no renderer was asked for its
\* command with no keyword overriding them
C12_Witness ==
    /\ ret.op = "backend_command"
    /\ ret.res.kind = "RequiredArgumentError"
    /\ \E i \in DOMAIN objs :
        /\ get_formatter(objs[i]) # None /\ get_renderer(objs[i]) = None
        /\ arg_formatter = get_formatter(objs[i])
        /\ arg_renderer = None

(***************************************************************************)
(* Properties of the stored capabilities                                   *)
(***************************************************************************)
SetterOps == { "engine.setter", "format.setter",
               "renderer.setter", "formatter.setter" }

\* the field of instance self that the setter named op assigns
StoredBy(op, self) ==
    IF op = "engine.setter" THEN self._engine
    ELSE IF op = "format.setter" THEN self._format
    ELSE IF op = "renderer.setter" THEN self._renderer
    ELSE self._formatter

\* what a successful setter stores for value: None (the attribute removed)
\* for the None accepted by the renderer and formatter setters, else the
\* lowercased value
Stored(op, value) ==
    IF op \in { "renderer.setter", "formatter.setter" } /\ value = None
    THEN None
    ELSE Lower(value)

StoredCapabilitiesValid ==
    /\ default_engine \in ENGINES
    /\ default_format \in FORMATS
    /\ \A i \in DOMAIN objs :
        /\ get_engine(objs[i], default_engine) \in ENGINES
        /\ get_format(objs[i], default_format) \in FORMATS
        /\ get_renderer(objs[i]) = None \/ get_renderer(objs[i]) \in RENDERERS
        /\ get_formatter(objs[i]) = None
            \/ get_formatter(objs[i]) \in FORMATTERS
    /\ (ret.op \in SetterOps /\ ret.res.kind = "ok")
        => StoredBy(ret.op, objs[ret.args[1]]) = Stored(ret.op, ret.args[2])

FailureKeepsState ==
    (/\ ret'.op \in SetterOps \cup { "set_default_engine", "set_default_format" }
     /\ ret'.res.kind = "ValueError")
        => UNCHANGED <<default_engine, default_format, objs>>

\* C13: after any sequence of set_default_engine, set_default_format and
\* Graphviz setter calls, successful or failing, the process-wide default
\* engine is in ENGINES and the default format in FORMATS; every instance's
\* effective engine is in ENGINES, its effective format in FORMATS, its
\* renderer absent or in RENDERERS, its formatter absent or in FORMATTERS; a
\* successful setter has stored the lowercased value; and a call that raises
\* the unknown-capability ValueError leaves the defaults and the instances'
\* fields as they were before the call.
C13_CapabilitiesKept ==
    /\ []StoredCapabilitiesValid
    /\ [][FailureKeepsState]_vars

\* obj.renderer = 'none' has just raised, on an instance that keeps the
\* 'cairo' stored for an earlier obj.renderer = 'Cairo' and its own engine,
\* while the default engine is no longer the initial one
C13_Witness ==
    /\ ret.op = "renderer.setter"
    /\ ret.res.kind = "ValueError"
    /\ ret.args[2] = <<"n", "o", "n", "e">>
    /\ objs[ret.args[1]]._renderer = <<"c", "a", "i", "r", "o">>
    /\ objs[ret.args[1]]._engine # None
    /\ default_engine # <<"d", "o", "t">>
    /\ default_engine # objs[ret.args[1]]._engine

====
